---- MODULE Spec2Model ----
(***************************************************************************)
(* Model of the two engines of the repository:                            *)
(*   - aStarSearch (src/Graph.ts:50-157), the generic A* search over a    *)
(*     linked-list open set and an array closed set;                      *)
(*   - interpretCommand (src/unnamed/part_000:108-378), the interpreter   *)
(*     that resolves a parsed command against a world of stacks into a    *)
(*     DNF goal formula.                                                   *)
(***************************************************************************)
EXTENDS Integers, Sequences, FiniteSets, TLC

(***************************************************************************)
(* Bounds of the model.                                                    *)
(***************************************************************************)
\* largest edge cost drawn for a graph
MaxCost == 2
\* largest heuristic value drawn for a node
MaxH == 2
\* cap on the number of expansions of one search (the loop of a search that
\* never closes a node has no bound of its own)
MaxSteps == 6

VARIABLES
  \* ---- aStarSearch ----
  edges,      \* the graph: the sequence of Edge records outgoingEdges draws from
  h,          \* the heuristics function, node -> number
  fresh,      \* TRUE when outgoingEdges builds a new node object for every edge
  openSet,    \* LinkedList<NodeScore>, in list order
  closedSet,  \* Node[], in push order
  elapsed,    \* Date.now() - startTime > timeout*1000
  pc,         \* "loop" | "found" | "nopath" | "threw" | "idle"
  result,     \* SearchResult {path, cost}
  steps,      \* expansions done so far
  visited,    \* history of the run: the configurations the loop body was
              \* entered in (no action reads it)
  \* ---- interpretCommand ----
  stacks,         \* state.stacks: the stacks of the world, bottom first
  objects,        \* state.objects: identifier -> ObjectDefinition
  cmd,            \* the Parser.Command handed to interpretCommand
  ipc,            \* "ready" | "returned" | "nointerpretation" | "typeerror" | "idle"
                  \* | "interpretReturned" | "interpretThrew"
  interpretation, \* the DNFFormula returned
  \* ---- interpret ----
  parses,          \* the list of parses handed to interpret
  interpretations, \* the InterpretationResult[] it returns
  thrown           \* the error it throws

svars == <<edges, h, fresh, openSet, closedSet, elapsed, pc, result, steps, visited>>

ivars == <<stacks, objects, cmd, ipc, interpretation, parses, interpretations, thrown>>

vars == <<svars, ivars>>

(***************************************************************************)
(* Graphs.  Nodes are the values "s" (start), "a", "b", "t".               *)
(***************************************************************************)
Nodes == {"s", "a", "b", "t"}

start == "s"

\* the goal predicate handed to aStarSearch
goal(n) == n = "t"

\* the slots an edge can occupy, in the order outgoingEdges lists them
EdgeSlots == << <<"s", "b">>, <<"s", "a">>, <<"a", "b">>,
                <<"b", "a">>, <<"a", "t">>, <<"b", "t">> >>

Absent == 0 - 1

\* the costs each slot may take (Absent: the graph has no such edge)
SlotCosts(i) ==
  IF i <= 3 THEN 0..MaxCost
  ELSE IF i = 4 THEN {Absent, 0, 1}
  ELSE {Absent} \cup (1..MaxCost)

RECURSIVE EdgesOf(_, _)
EdgesOf(w, i) ==
  IF i > Len(EdgeSlots) THEN <<>>
  ELSE LET rest == EdgesOf(w, i + 1)
       IN IF w[i] = Absent THEN rest
          ELSE <<[from |-> EdgeSlots[i][1], to |-> EdgeSlots[i][2], cost |-> w[i]]>> \o rest

Graphs ==
  { EdgesOf(w, 1) :
      w \in { x \in [1..Len(EdgeSlots) -> {Absent} \cup (0..MaxCost)] :
                \A i \in 1..Len(EdgeSlots) : x[i] \in SlotCosts(i) } }

Heuristics ==
  { x \in [Nodes -> 0..MaxH] : x["s"] = 0 /\ x["t"] = 0 }

RECURSIVE SelectFrom(_, _, _)
SelectFrom(es, n, i) ==
  IF i > Len(es) THEN <<>>
  ELSE IF es[i].from = n THEN <<es[i]>> \o SelectFrom(es, n, i + 1)
       ELSE SelectFrom(es, n, i + 1)

\* graph.outgoingEdges(node)
outgoingEdges(n) == SelectFrom(edges, n, 1)

\* graph.compareNodes(a, b): 0 iff the nodes are equal as values
compareNodes(a, b) == IF a = b THEN 0 ELSE 1

(***************************************************************************)
(* NodeScore and the linked list.  A parent is <<>> (null) or <<entry>>.   *)
(***************************************************************************)
NodeScore(p, n, f, g) == [parent |-> p, node |-> n, f |-> f, g |-> g]

cmp(a, b) == compareNodes(a.node, b.node) = 0

RECURSIVE indexOfFrom(_, _, _)
indexOfFrom(list, item, i) ==
  IF i > Len(list) THEN 0 - 1
  ELSE IF cmp(list[i], item) THEN i - 1
       ELSE indexOfFrom(list, item, i + 1)

\* openSet.indexOf(item, cmp): 0-based index of the first equal element, or -1
indexOf(list, item) == indexOfFrom(list, item, 1)

\* contains with the default equality of the list: the same object
containsSameObject(list, item) == \E i \in 1..Len(list) : list[i] = item

\* openSet.contains(item, cmp)
contains(list, item) == indexOf(list, item) >= 0

\* openSet.elementAtIndex(index): <<>> stands for undefined
elementAtIndex(list, index) ==
  IF index < 0 \/ index >= Len(list) THEN <<>> ELSE <<list[index + 1]>>

RECURSIVE removeFrom(_, _, _)
removeFrom(list, item, i) ==
  IF i > Len(list) THEN list
  ELSE IF list[i] = item
       THEN SubSeq(list, 1, i - 1) \o SubSeq(list, i + 1, Len(list))
       ELSE removeFrom(list, item, i + 1)

\* openSet.remove(item): removes the first element that is that object
remove(list, item) == removeFrom(list, item, 1)

\* openSet.add(item): appends at the end of the list
add(list, item) == Append(list, item)

\* getLowest without the scan: the head of the list, whatever its f
getLowestHead(list) == list[1]

RECURSIVE scanLowestLast(_, _, _)
\* scanLowest with <= for <: among equal f the scan ends on the last one
scanLowestLast(list, i, ret) ==
  IF i > Len(list) THEN ret
  ELSE scanLowestLast(list, i + 1, IF list[i].f <= ret.f THEN list[i] ELSE ret)

RECURSIVE scanLowest(_, _, _)
scanLowest(list, i, ret) ==
  IF i > Len(list) THEN ret
  ELSE scanLowest(list, i + 1, IF list[i].f < ret.f THEN list[i] ELSE ret)

\* getLowest(): the element the scan ends on (the list is not empty)
getLowest(list) == scanLowest(list, 1, list[1])

\* closedSet.indexOf(n) > -1: Array.indexOf compares with ===, so a node
\* object built anew by outgoingEdges is never found
inClosed(closed, n) ==
  ~fresh /\ \E i \in 1..Len(closed) : closed[i] = n

\* nextScore with the g of current left out of t_gScore
nextScoreEdgeOnly(current, n) ==
  NodeScore(<<current>>, n.to, h[n.to] + n.cost, n.cost)

\* lines 133-135: the NodeScore built for the edge n out of current
nextScore(current, n) ==
  LET t_gScore == current.g + n.cost
  IN NodeScore(<<current>>, n.to, h[n.to] + t_gScore, t_gScore)

\* processEdge without the removal of line 150
processEdgeKeepStale(open, closed, current, n) ==
  IF inClosed(closed, n.to) THEN open
  ELSE LET next == nextScore(current, n)
           existing == elementAtIndex(open, indexOf(open, next))
       IN IF ~contains(open, next) THEN add(open, next)
          ELSE IF next.g >= existing[1].g THEN open
          ELSE add(open, next)

\* lines 127-152: the body of the loop over the neighbours, for one edge
processEdge(open, closed, current, n) ==
  IF inClosed(closed, n.to) THEN open
  ELSE LET next == nextScore(current, n)
           existing == elementAtIndex(open, indexOf(open, next))
       IN IF ~contains(open, next) THEN add(open, next)
          ELSE IF next.g >= existing[1].g THEN open
          ELSE add(remove(open, existing[1]), next)

RECURSIVE processEdges(_, _, _, _, _)
processEdges(open, closed, current, ns, i) ==
  IF i > Len(ns) THEN open
  ELSE processEdges(processEdge(open, closed, current, ns[i]), closed, current, ns, i + 1)

RECURSIVE pushPathBelowRoot(_, _)
\* pushPath stopping at the entry that has no parent, start left out
pushPathBelowRoot(cur, acc) ==
  IF cur[1].parent = <<>> THEN acc
  ELSE pushPathBelowRoot(cur[1].parent, Append(acc, cur[1].node))

RECURSIVE pushPath(_, _)
\* lines 113-117: follow the parent links, pushing each node
pushPath(cur, acc) ==
  IF cur = <<>> THEN acc
  ELSE pushPath(cur[1].parent, Append(acc, cur[1].node))

reverse(s) == [i \in 1..Len(s) |-> s[Len(s) + 1 - i]]

\* lines 112-120: the SearchResult returned for a goal entry
searchResult(current) ==
  [path |-> reverse(pushPath(<<current>>, <<>>)), cost |-> current.g]

(***************************************************************************)
(* The search, one action per evaluation of the loop of line 107.          *)
(***************************************************************************)
\* what the rest of a run depends on, but for the nodes of the path it
\* returns: the open entries without their parents and, when the closed set
\* is searched successfully (line 128), the closed set
configuration ==
  << [i \in 1..Len(openSet) |-> <<openSet[i].node, openSet[i].f, openSet[i].g>>],
     IF fresh THEN <<>> ELSE closedSet >>

SearchInit ==
  /\ edges \in Graphs
  /\ h \in Heuristics
  /\ fresh \in BOOLEAN
  /\ openSet = <<NodeScore(<<>>, start, h[start], 0)>>
  /\ closedSet = <<>>
  /\ elapsed = FALSE
  /\ pc = "loop"
  /\ result = [path |-> <<>>, cost |-> 0]
  /\ steps = 0
  /\ visited = {}
  /\ stacks = <<>>
  /\ objects = <<>>
  /\ cmd = <<>>
  /\ ipc = "idle"
  /\ interpretation = <<>>
  /\ parses = <<>>
  /\ interpretations = <<>>
  /\ thrown = "none"

\* the clock passes the timeout
Tick ==
  /\ pc = "loop"
  /\ ~elapsed
  /\ elapsed' = TRUE
  /\ UNCHANGED <<edges, h, fresh, openSet, closedSet, pc, result, steps, visited>>
  /\ UNCHANGED ivars

\* line 107 is false: the open set is empty and the time is up; line 156
ReturnUndefined ==
  /\ pc = "loop"
  /\ Len(openSet) = 0
  /\ elapsed
  /\ pc' = "nopath"
  /\ UNCHANGED <<edges, h, fresh, openSet, closedSet, elapsed, result, steps, visited>>
  /\ UNCHANGED ivars

\* line 107 is true with the open set empty: getLowest reads
\* openSet.firstNode.element of a null firstNode (line 90)
GetLowestThrows ==
  /\ pc = "loop"
  /\ Len(openSet) = 0
  /\ ~elapsed
  /\ pc' = "threw"
  /\ UNCHANGED <<edges, h, fresh, openSet, closedSet, elapsed, result, steps, visited>>
  /\ UNCHANGED ivars

\* lines 108-121
ReturnPath ==
  /\ pc = "loop"
  /\ Len(openSet) > 0
  /\ LET current == getLowest(openSet)
     IN /\ goal(current.node)
        /\ openSet' = remove(openSet, current)
        /\ result' = searchResult(current)
        /\ pc' = "found"
  /\ UNCHANGED <<edges, h, fresh, closedSet, elapsed, steps, visited>>
  /\ UNCHANGED ivars

\* lines 108-110, 122-153
Expand ==
  /\ pc = "loop"
  /\ Len(openSet) > 0
  /\ steps < MaxSteps
  /\ LET current == getLowest(openSet)
         closed == Append(closedSet, current.node)
     IN /\ ~goal(current.node)
        /\ closedSet' = closed
        /\ openSet' = processEdges(remove(openSet, current), closed, current,
                                   outgoingEdges(current.node), 1)
  /\ steps' = steps + 1
  /\ visited' = visited \cup {configuration}
  /\ UNCHANGED <<edges, h, fresh, elapsed, pc, result>>
  /\ UNCHANGED ivars

SearchNext ==
  \/ Tick
  \/ ReturnUndefined
  \/ GetLowestThrows
  \/ ReturnPath
  \/ Expand

Spec == SearchInit /\ [][SearchNext]_vars

(***************************************************************************)
(* The interpreter: worlds.                                                *)
(***************************************************************************)
\* number of stacks of a world
NumStacks == 3

\* the identifiers placed in the stacks of a world
Ids == {"e", "f", "k", "m"}

ObjectDefinition(form, size, color) == [form |-> form, size |-> size, color |-> color]

\* an object mapping that defines the virtual object "floor", of form "floor"
SmallObjects ==
  [o \in Ids \cup {"floor"} |->
     CASE o = "e" -> ObjectDefinition("ball", "large", "white")
       [] o = "f" -> ObjectDefinition("ball", "small", "black")
       [] o = "k" -> ObjectDefinition("box", "large", "yellow")
       [] o = "m" -> ObjectDefinition("box", "small", "blue")
       [] OTHER -> ObjectDefinition("floor", "", "")]

\* an object mapping that defines the identifiers of the stacks alone
StackedObjects == [o \in Ids |-> SmallObjects[o]]

\* the object mapping of the example worlds: it defines no "floor", and it
\* defines objects that stand in no stack of the world (here the brick "a")
ExampleObjects ==
  [o \in Ids \cup {"a"} |->
     IF o \in Ids THEN StackedObjects[o] ELSE ObjectDefinition("brick", "large", "green")]

\* state.objects is an input of interpretCommand: both kinds of mapping are
\* values of its type { [s:string]: ObjectDefinition }
Catalogs == {SmallObjects, ExampleObjects}

\* the orders in which the identifiers can be laid out
Layouts ==
  { p \in [1..Cardinality(Ids) -> Ids] :
      \A i, j \in 1..Cardinality(Ids) : i # j => p[i] # p[j] }

\* where a layout is cut into NumStacks consecutive stacks
Cuts ==
  { c \in [0..NumStacks -> 0..Cardinality(Ids)] :
      /\ c[0] = 0
      /\ c[NumStacks] = Cardinality(Ids)
      /\ \A j \in 1..NumStacks : c[j - 1] <= c[j] }

\* every world: each identifier in exactly one stack at one position
Worlds ==
  { [j \in 1..NumStacks |-> SubSeq(p, c[j - 1] + 1, c[j])] : p \in Layouts, c \in Cuts }

(***************************************************************************)
(* The interpreter: commands.  An unset field of a description is "".      *)
(***************************************************************************)
Relations == {"ontop", "inside", "above", "under", "beside", "leftof", "rightof"}

flat(form, size, color) == [form |-> form, size |-> size, color |-> color]

Entity(object) == [object |-> object]

Location(relation, object) == [relation |-> relation, entity |-> Entity(object)]

composite(object, relation, anchor) ==
  [object |-> object, location |-> Location(relation, anchor)]

take(object) == [command |-> "take", entity |-> Entity(object)]

move(object, relation, dest) ==
  [command |-> "move", entity |-> Entity(object), location |-> Location(relation, dest)]

anObject == flat("anyform", "", "")
aBall == flat("ball", "", "")
aBox == flat("box", "", "")
aTable == flat("table", "", "")
theFloor == flat("floor", "", "")
aSmallObject == flat("anyform", "small", "")

Flats == {anObject, aBall, aBox, aTable, theFloor, aSmallObject}

\* "an X <relation> a Y"
Nested ==
  { composite(o, r, a) : o \in {anObject, aBall, aBox}, r \in Relations,
                         a \in {anObject, aBox, theFloor} }

\* "a ball in (a box on the floor)", "(a ball in a box) on the floor", ...
Nested2 ==
  { composite(aBall, "inside", composite(aBox, r, theFloor)) : r \in {"ontop", "above"} }
  \cup { composite(composite(aBall, "inside", aBox), r, theFloor) : r \in {"ontop", "above"} }

\* flat descriptions with no, one, two and three fields set
Descriptions ==
  { flat("", "", ""), flat("anyform", "", "white"), flat("ball", "large", ""),
    flat("ball", "small", "white"), flat("box", "small", "blue"), flat("brick", "", "") }

\* the labels of the cases of lines 213 and 219
CaseLabels == {"left of", "right of"}

\* "an object <case label> an X"
Sideways ==
  { composite(anObject, r, a) : r \in CaseLabels, a \in {anObject, aBall} }

Commands ==
  { take(o) : o \in Flats \cup Descriptions \cup Nested \cup Nested2 \cup Sideways }
  \cup { move(o, r, d) : o \in Flats \ {aTable}, r \in Relations,
                         d \in Flats \ {aSmallObject} }
  \cup { move(o, r, d) : o \in Nested2 \cup {aBall, composite(aBall, "inside", aBox)},
                         r \in {"inside", "ontop", "beside"},
                         d \in {aBox, theFloor, composite(aBox, "ontop", theFloor)} }

(***************************************************************************)
(* The interpreter: interpretCommand and its local functions.              *)
(***************************************************************************)
\* Array.prototype.indexOf, 0-based, -1 when absent
RECURSIVE arrayIndexOfFrom(_, _, _)
arrayIndexOfFrom(arr, elem, i) ==
  IF i > Len(arr) THEN 0 - 1
  ELSE IF arr[i] = elem THEN i - 1
       ELSE arrayIndexOfFrom(arr, elem, i + 1)

arrayIndexOf(arr, elem) == arrayIndexOfFrom(arr, elem, 1)

\* contains(arr, elem), lines 122-124
containsElem(arr, elem) == arrayIndexOf(arr, elem) > 0 - 1

\* slice that copies the whole array
arraySliceWhole(arr, begin, end) == arr

\* Array.prototype.slice(begin, end) with its handling of negative indices
arraySlice(arr, begin, end) ==
  LET k == Len(arr)
      clip(x) == IF x < 0 THEN (IF k + x < 0 THEN 0 ELSE k + x)
                 ELSE (IF x > k THEN k ELSE x)
  IN SubSeq(arr, clip(begin) + 1, clip(end))

\* stackAt with an index that wraps around the ends of the array
stackAtWrapping(j) == stacks[(j % Len(stacks)) + 1]

\* state.stacks[j] for a 0-based j; an index outside the array is undefined,
\* over which a for-in loop runs no iteration
stackAt(j) == IF j >= 0 /\ j < Len(stacks) THEN stacks[j + 1] ELSE <<>>

RECURSIVE flatten(_, _)
flatten(ss, j) == IF j > Len(ss) THEN <<>> ELSE ss[j] \o flatten(ss, j + 1)

\* the objects of the first stack alone
worldObjectsFirstStack == stacks[1]

\* line 109: var objects = Array.prototype.concat.apply([], state.stacks)
worldObjects == flatten(stacks, 1)

RECURSIVE getPositionFrom(_, _, _)
getPositionFrom(object, j, objectnumber) ==
  IF j >= Len(stacks) THEN <<0, objectnumber>>
  ELSE LET found == arrayIndexOf(stacks[j + 1], object)
       IN IF found > 0 - 1 THEN <<j, found>>
          ELSE getPositionFrom(object, j + 1, found)

\* getPosition with the position in the stack counted from 1
getPositionOneBased(object) ==
  <<getPositionFrom(object, 0, 0)[1], getPositionFrom(object, 0, 0)[2] + 1>>

\* getPosition(object), lines 131-142: <<stacknumber, objectnumber>>, 0-based
getPosition(object) == getPositionFrom(object, 0, 0)

\* isMatching without the comparison of the colors
isMatchingColorBlind(currentObject, object) ==
  IF object.form # "anyform" /\ object.form # "" /\ currentObject.form # object.form
  THEN FALSE
  ELSE IF object.size # "" /\ currentObject.size # object.size
  THEN FALSE
  ELSE TRUE

\* isMatching(currentObject, object), lines 260-277
isMatching(currentObject, object) ==
  IF object.form # "anyform" /\ object.form # "" /\ currentObject.form # object.form
  THEN FALSE
  ELSE IF object.size # "" /\ currentObject.size # object.size
  THEN FALSE
  ELSE IF object.color # "" /\ currentObject.color # object.color
  THEN FALSE
  ELSE TRUE

\* lines 187-236: what one anchor adds to returnObjects
neighbours(relation, anchor) ==
  LET pos == getPosition(anchor)
      stack == stackAt(pos[1])
  IN CASE relation \in {"ontop", "inside"} ->
            IF pos[2] + 1 >= 0 /\ pos[2] + 1 < Len(stack)
            THEN <<stack[pos[2] + 2]>> ELSE <<>>
       [] relation = "above" -> arraySlice(stack, pos[2] + 1, Len(stack))
       [] relation = "under" -> arraySlice(stack, 0, pos[2])
       [] relation = "right of" -> stackAt(pos[1] + 1)
       [] relation = "left of" -> stackAt(pos[1] - 1)
       [] relation = "beside" -> stackAt(pos[1] - 1) \o stackAt(pos[1] + 1)
       [] OTHER -> <<>>

RECURSIVE collectNeighbours(_, _, _)
collectNeighbours(relation, entityObjs, i) ==
  IF i > Len(entityObjs) THEN <<>>
  ELSE neighbours(relation, entityObjs[i]) \o collectNeighbours(relation, entityObjs, i + 1)

RECURSIVE forEachParse(_, _)
RECURSIVE forEachParseAborting(_, _)
RECURSIVE interpretObject(_)
RECURSIVE interpretLocation(_)
RECURSIVE interpretEntity(_)

\* interpretObject without the filter of lines 157-159
interpretObjectUnfiltered(object) ==
  IF "object" \in DOMAIN object
  THEN interpretObject(object.object)
  ELSE IF object.form = "floor" THEN <<"floor">>
  ELSE SelectSeq(worldObjects, LAMBDA o : isMatching(objects[o], object))

\* interpretObject(object), lines 149-173
interpretObject(object) ==
  IF "object" \in DOMAIN object
  THEN LET matchObjects == interpretObject(object.object)
           locObjects == interpretLocation(object.location)
       IN SelectSeq(matchObjects, LAMBDA n : containsElem(locObjects, n))
  ELSE IF object.form = "floor" THEN <<"floor">>
  ELSE SelectSeq(worldObjects, LAMBDA o : isMatching(objects[o], object))

\* interpretLocation(location), lines 180-239
interpretLocation(location) ==
  collectNeighbours(location.relation, interpretEntity(location.entity), 1)

\* interpretEntity taking the intersection from the side of the location:
\* the objects of interpretLocation that match, as often as they occur
interpretEntityByLocation(entity) ==
  IF "object" \in DOMAIN entity.object
  THEN SelectSeq(interpretLocation(entity.object.location),
                 LAMBDA n : containsElem(interpretObject(entity.object.object), n))
  ELSE interpretObject(entity.object)

\* interpretEntity(entity), lines 246-250
interpretEntity(entity) == interpretObject(entity.object)

\* lines 285-295: isAllowed reads destObj.form (line 291) and then moveObj.size
\* (line 295) of state.objects[key], which is undefined for a key the mapping
\* does not define: the read throws a TypeError
isAllowedThrows(moveObjKey, relation, destObjKey) ==
  IF moveObjKey = destObjKey THEN FALSE
  ELSE IF destObjKey \notin DOMAIN objects THEN TRUE
  ELSE IF objects[destObjKey].form = "floor" /\ relation \notin {"above", "ontop"} THEN FALSE
  ELSE moveObjKey \notin DOMAIN objects

\* destinationRules without the test of line 314
destinationRulesBoxOntop(cmdRelation, moveObj, destObj) ==
  CASE destObj.form = "box" ->
         IF moveObj.form \in {"box", "pyramid", "plank"}
            /\ moveObj.size = destObj.size THEN FALSE
         ELSE TRUE
    [] destObj.form = "ball" ->
         IF cmdRelation \in {"ontop", "above"} THEN FALSE ELSE TRUE
    [] destObj.form = "pyramid" ->
         IF moveObj.form = "box" /\ moveObj.size = destObj.size THEN FALSE ELSE TRUE
    [] destObj.form = "brick" ->
         IF moveObj.form = "box" /\ destObj.size = "small" THEN FALSE ELSE TRUE
    [] OTHER -> TRUE

\* lines 310-345: the switch over destObj.form and the final return true
destinationRules(cmdRelation, moveObj, destObj) ==
  CASE destObj.form = "box" ->
         IF cmdRelation = "ontop" THEN FALSE
         ELSE IF moveObj.form \in {"box", "pyramid", "plank"}
                 /\ moveObj.size = destObj.size THEN FALSE
         ELSE TRUE
    [] destObj.form = "ball" ->
         IF cmdRelation \in {"ontop", "above"} THEN FALSE ELSE TRUE
    [] destObj.form = "pyramid" ->
         IF moveObj.form = "box" /\ moveObj.size = destObj.size THEN FALSE ELSE TRUE
    [] destObj.form = "brick" ->
         IF moveObj.form = "box" /\ destObj.size = "small" THEN FALSE ELSE TRUE
    [] OTHER -> TRUE

\* isAllowed(moveObjKey, relation, destObjKey), lines 284-346, inside the
\* closure of the command c; its value when it does not throw
isAllowed(c, moveObjKey, relation, destObjKey) ==
  LET moveObj == objects[moveObjKey]
      destObj == objects[destObjKey]
      cmdRelation == c.location.relation
  IN IF moveObjKey = destObjKey THEN FALSE
     ELSE IF destObj.form = "floor" /\ relation \notin {"above", "ontop"} THEN FALSE
     ELSE IF moveObj.size = "large" /\ destObj.size = "small"
             /\ relation \in {"ontop", "inside", "above"} THEN FALSE
     ELSE IF moveObj.size = "small" /\ destObj.size = "large"
             /\ relation = "under" THEN FALSE
     ELSE IF moveObj.form = "ball"
             /\ ((destObj.form \notin {"floor", "box"} /\ cmdRelation \in {"ontop", "inside"})
                 \/ cmdRelation = "under") THEN FALSE
     ELSE destinationRules(cmdRelation, moveObj, destObj)

Literal(polarity, relation, args) ==
  [polarity |-> polarity, relation |-> relation, args |-> args]

\* takeFormula with the loop started one element late
takeFormulaSkipFirst(c) ==
  LET takeObjs == interpretEntity(c.entity)
  IN [i \in 1..(Len(takeObjs) - 1) |-> <<Literal(TRUE, "holding", <<takeObjs[i + 1]>>)>>]

\* lines 349-353
takeFormula(c) ==
  LET takeObjs == interpretEntity(c.entity)
  IN [i \in 1..Len(takeObjs) |-> <<Literal(TRUE, "holding", <<takeObjs[i]>>)>>]

\* pairDisjunct without the test of isAllowed
pairDisjunctUnchecked(c, m, p) ==
  << <<Literal(TRUE, c.location.relation, <<m, p>>)>> >>

\* lines 363-367: the body of the inner loop
pairDisjunct(c, m, p) ==
  IF isAllowed(c, m, c.location.relation, p)
  THEN << <<Literal(TRUE, c.location.relation, <<m, p>>)>> >>
  ELSE <<>>

RECURSIVE innerLoop(_, _, _, _)
innerLoop(c, m, posObjs, p) ==
  IF p > Len(posObjs) THEN <<>>
  ELSE pairDisjunct(c, m, posObjs[p]) \o innerLoop(c, m, posObjs, p + 1)

RECURSIVE outerLoop(_, _, _, _)
outerLoop(c, moveObjs, posObjs, m) ==
  IF m > Len(moveObjs) THEN <<>>
  ELSE innerLoop(c, moveObjs[m], posObjs, 1) \o outerLoop(c, moveObjs, posObjs, m + 1)

\* lines 354-370
moveFormula(c) ==
  outerLoop(c, interpretEntity(c.entity), interpretEntity(c.location.entity), 1)

\* lines 348-370: the interpretation built before the test of line 372
buildInterpretation(c) ==
  IF c.command = "take" THEN takeFormula(c) ELSE moveFormula(c)

\* lines 361-363: a call of isAllowed in the loops throws; the loops run over
\* every pair unless a call throws
loopsThrow(c) ==
  IF c.command = "take" THEN FALSE
  ELSE LET moveObjs == interpretEntity(c.entity)
           posObjs == interpretEntity(c.location.entity)
       IN \E m \in 1..Len(moveObjs) :
            \E p \in 1..Len(posObjs) :
              isAllowedThrows(moveObjs[m], c.location.relation, posObjs[p])

\* interpretCommand(c, state), lines 108-378: how the call ends, and the
\* formula it returns
interpretCommand(c) ==
  IF loopsThrow(c)
  THEN [status |-> "typeerror", interpretation |-> <<>>]
  ELSE LET built == buildInterpretation(c)
       IN IF Len(built) > 0
          THEN [status |-> "returned", interpretation |-> built]
          ELSE [status |-> "nointerpretation", interpretation |-> <<>>]

InterpInit ==
  /\ stacks \in Worlds
  /\ objects \in Catalogs
  /\ cmd = <<>>
  /\ ipc = "ready"
  /\ interpretation = <<>>
  /\ parses = <<>>
  /\ interpretations = <<>>
  /\ thrown = "none"
  /\ edges = <<>>
  /\ h = <<>>
  /\ fresh = FALSE
  /\ openSet = <<>>
  /\ closedSet = <<>>
  /\ elapsed = FALSE
  /\ pc = "idle"
  /\ result = [path |-> <<>>, cost |-> 0]
  /\ steps = 0
  /\ visited = {}

\* one call of interpretCommand(c, state): it returns at line 373, throws
\* Error("No interpetation found.") at line 375, or is left by the TypeError
\* of a call of isAllowed
InterpretCommand ==
  /\ ipc = "ready"
  /\ \E c \in Commands :
       \E ended \in {interpretCommand(c)} :
         /\ cmd' = c
         /\ interpretation' = ended.interpretation
         /\ ipc' = ended.status
  /\ UNCHANGED <<stacks, objects, parses, interpretations, thrown>>
  /\ UNCHANGED svars

(***************************************************************************)
(* interpret(parses, currentState), lines 38-56.                           *)
(***************************************************************************)
\* largest number of parses of one utterance
MaxParses == 2

\* a Parser.ParseResult: the parse of an utterance
ParseResult(c) == [parse |-> c]

\* an InterpretationResult: the ParseResult with its interpretation
InterpretationResult(c, formula) == [parse |-> c, interpretation |-> formula]

\* the parses lists are drawn from: "take a ball", "take a table" and the
\* two parses of "put a ball in a box on the floor"
ParseChoices ==
  { ParseResult(take(aBall)),
    ParseResult(take(aTable)),
    ParseResult(move(aBall, "inside", composite(aBox, "ontop", theFloor))),
    ParseResult(move(composite(aBall, "inside", aBox), "ontop", theFloor)) }

ParseLists == UNION { [1..n -> ParseChoices] : n \in 0..MaxParses }

\* the forEach without its try/catch: the first failing parse ends the loop
forEachParseAborting(ps, i) ==
  IF i > Len(ps) THEN [interpretations |-> <<>>, errors |-> <<>>]
  ELSE LET ended == interpretCommand(ps[i].parse)
       IN IF ended.status = "returned"
          THEN LET rest == forEachParseAborting(ps, i + 1)
               IN [interpretations |->
                     <<InterpretationResult(ps[i].parse, ended.interpretation)>>
                       \o rest.interpretations,
                   errors |-> rest.errors]
          ELSE [interpretations |-> <<>>, errors |-> <<ended.status>>]

\* lines 41-49: the parses from the i-th on; every error interpretCommand
\* throws is caught and collected
forEachParse(ps, i) ==
  IF i > Len(ps) THEN [interpretations |-> <<>>, errors |-> <<>>]
  ELSE LET ended == interpretCommand(ps[i].parse)
           rest == forEachParse(ps, i + 1)
       IN IF ended.status = "returned"
          THEN [interpretations |->
                  <<InterpretationResult(ps[i].parse, ended.interpretation)>>
                    \o rest.interpretations,
                errors |-> rest.errors]
          ELSE [interpretations |-> rest.interpretations,
                errors |-> <<ended.status>> \o rest.errors]

\* lines 38-56; errors[0] of an empty errors array is undefined
interpret(ps) ==
  LET done == forEachParse(ps, 1)
  IN IF Len(done.interpretations) > 0
     THEN [status |-> "interpretReturned",
           interpretations |-> done.interpretations, thrown |-> "none"]
     ELSE [status |-> "interpretThrew", interpretations |-> <<>>,
           thrown |-> IF Len(done.errors) > 0 THEN done.errors[1] ELSE "undefined"]

\* one call of interpret(parses, currentState)
Interpret ==
  /\ ipc = "ready"
  /\ \E ps \in ParseLists :
       \E ended \in {interpret(ps)} :
         /\ parses' = ps
         /\ interpretations' = ended.interpretations
         /\ thrown' = ended.thrown
         /\ ipc' = ended.status
  /\ UNCHANGED <<stacks, objects, cmd, interpretation>>
  /\ UNCHANGED svars

InterpNext ==
  \/ InterpretCommand
  \/ Interpret

InterpSpec == InterpInit /\ [][InterpNext]_vars

(***************************************************************************)
(* Reference notions the properties of the search are stated with.         *)
(***************************************************************************)
\* larger than the cost of any simple path
Unreachable == (MaxCost + 1) * Cardinality(Nodes)

Least(S) == CHOOSE x \in S : \A y \in S : x <= y

\* one round of relaxation of the distances d towards the goal nodes
relaxToGoal(d) ==
  [n \in Nodes |->
     Least({d[n]} \cup { edges[i].cost + d[edges[i].to] :
                          i \in { j \in 1..Len(edges) : edges[j].from = n } })]

RECURSIVE relaxRounds(_, _)
relaxRounds(d, k) == IF k = 0 THEN d ELSE relaxRounds(relaxToGoal(d), k - 1)

\* the true remaining cost of every node: the least cost of a path to a goal
remainingCost ==
  relaxRounds([n \in Nodes |-> IF goal(n) THEN 0 ELSE Unreachable], Cardinality(Nodes))

goalReachable == remainingCost[start] < Unreachable

admissible == \A n \in Nodes : h[n] <= remainingCost[n]

zeroHeuristic == \A n \in Nodes : h[n] = 0

\* the sum of the costs of the edges between consecutive nodes of a path;
\* a graph holds at most one edge per ordered pair of nodes
isEdge(x, y) == \E i \in 1..Len(edges) : edges[i].from = x /\ edges[i].to = y

edgeCost(x, y) ==
  edges[CHOOSE i \in 1..Len(edges) : edges[i].from = x /\ edges[i].to = y].cost

RECURSIVE pathCost(_, _)
pathCost(p, i) ==
  IF i >= Len(p) THEN 0 ELSE edgeCost(p[i], p[i + 1]) + pathCost(p, i + 1)

searchEnded == pc \in {"found", "nopath", "threw"}

(***************************************************************************)
(* C1.  On a graph in which no goal node is reachable from start, a search *)
(* that ends has returned NoPath (undefined): it ends in no other way.     *)
(* Stated as the final result of a run.                                    *)
(***************************************************************************)
C1_UnreachableEndsNoPath ==
  (~goalReachable /\ searchEnded) => pc = "nopath"

(***************************************************************************)
(* C2.  Whenever the loop condition is evaluated after the timeout has     *)
(* elapsed, the search stops expanding and returns NoPath, also with a     *)
(* non-empty open set.                                                     *)
(***************************************************************************)
C2_TimeoutStopsSearch ==
  [][(pc = "loop" /\ elapsed) => pc' = "nopath"]_vars

(***************************************************************************)
(* C3.  aStarSearch never raises an exception: every run ends with a path  *)
(* result or with NoPath.                                                  *)
(***************************************************************************)
C3_NeverRaises ==
  pc # "threw"

(***************************************************************************)
(* C4.  For every successful result, result.cost is the exact sum of the   *)
(* costs of the edges between consecutive nodes of result.path.            *)
(***************************************************************************)
C4_CostIsPathSum ==
  pc = "found" => result.cost = pathCost(result.path, 1)

\* a path through b whose entry replaced the one inserted for the edge s -> b
\* (without fresh node objects a closed b is never entered again)
C4_Witness ==
  /\ pc = "found"
  /\ ~fresh
  /\ result.path = <<"s", "a", "b", "t">>
  /\ edgeCost("s", "a") + edgeCost("a", "b") < edgeCost("s", "b")

(***************************************************************************)
(* C5.  Every returned path is complete: it starts at start, ends at a     *)
(* goal node, and each consecutive pair is an edge of outgoingEdges.       *)
(***************************************************************************)
C5_PathWellFormed ==
  pc = "found" =>
    /\ Len(result.path) >= 1
    /\ result.path[1] = start
    /\ goal(result.path[Len(result.path)])
    /\ \A i \in 1..(Len(result.path) - 1) :
         \E k \in 1..Len(outgoingEdges(result.path[i])) :
           outgoingEdges(result.path[i])[k].to = result.path[i + 1]

C5_Witness ==
  /\ pc = "found"
  /\ Len(result.path) = 3
  /\ elapsed

(***************************************************************************)
(* C6.  With the heuristic constantly zero, the cost of a returned result  *)
(* is the minimum cost over all paths from start to a goal node.           *)
(***************************************************************************)
C6_ZeroHeuristicOptimal ==
  (pc = "found" /\ zeroHeuristic) => result.cost = remainingCost[start]

\* the cheapest path is not the one with the fewest edges
C6_Witness ==
  /\ pc = "found"
  /\ zeroHeuristic
  /\ Len(result.path) = 4
  /\ isEdge("s", "b") /\ isEdge("b", "t")
  /\ result.cost < edgeCost("s", "b") + edgeCost("b", "t")

(***************************************************************************)
(* C7.  With an admissible heuristic, the cost of a returned result is the *)
(* minimum path cost from start to a goal node.                            *)
(***************************************************************************)
C7_AdmissibleOptimal ==
  (pc = "found" /\ admissible) => result.cost = remainingCost[start]

(***************************************************************************)
(* Reference notions the properties of the interpreter are stated with.    *)
(***************************************************************************)
elements(arr) == { arr[i] : i \in 1..Len(arr) }

occurrences(formula, conjunction) ==
  Cardinality({ i \in 1..Len(formula) : formula[i] = conjunction })

holding(id) == <<Literal(TRUE, "holding", <<id>>)>>

relating(relation, m, d) == <<Literal(TRUE, relation, <<m, d>>)>>

\* the pairs of M x D the legality check lets through, for the command cmd
legalPairs ==
  { pair \in elements(interpretEntity(cmd.entity))
               \X elements(interpretEntity(cmd.location.entity)) :
      IF isAllowedThrows(pair[1], cmd.location.relation, pair[2]) THEN FALSE
      ELSE isAllowed(cmd, pair[1], cmd.location.relation, pair[2]) }

interpreted == ipc \in {"returned", "nointerpretation", "typeerror"}

(***************************************************************************)
(* C8.  For a take command the formula returned holds exactly one disjunct *)
(* per identifier of resolveEntity(cmd.entity), the single literal         *)
(* holding(id), and no other disjunct.                                     *)
(***************************************************************************)
C8_TakeOnePerIdentifier ==
  (ipc = "returned" /\ cmd.command = "take") =>
    /\ \A id \in elements(interpretEntity(cmd.entity)) :
         occurrences(interpretation, holding(id)) = 1
    /\ \A i \in 1..Len(interpretation) :
         \E id \in elements(interpretEntity(cmd.entity)) :
           interpretation[i] = holding(id)

\* "take a ball" with the two balls e and f
C8_Witness ==
  /\ ipc = "returned"
  /\ cmd = take(aBall)
  /\ Len(interpretation) = 2
  /\ elements(interpretation) = {holding("e"), holding("f")}

(***************************************************************************)
(* C9.  For a relational command the formula returned holds exactly one    *)
(* disjunct for each ordered pair (m, d) of M x D that is legal, the       *)
(* single literal relation(m, d), and no other disjunct.                   *)
(***************************************************************************)
C9_MoveOnePerLegalPair ==
  (ipc = "returned" /\ cmd.command # "take") =>
    /\ \A pair \in legalPairs :
         occurrences(interpretation,
                     relating(cmd.location.relation, pair[1], pair[2])) = 1
    /\ \A i \in 1..Len(interpretation) :
         \E pair \in legalPairs :
           interpretation[i] = relating(cmd.location.relation, pair[1], pair[2])

\* several legal pairs, and a pair of M x D that is not legal
C9_Witness ==
  /\ ipc = "returned"
  /\ cmd.command # "take"
  /\ Len(interpretation) >= 2
  /\ Cardinality(legalPairs)
       < Cardinality(elements(interpretEntity(cmd.entity)))
           * Cardinality(elements(interpretEntity(cmd.location.entity)))

(***************************************************************************)
(* C10.  interpretCommand never returns an empty formula: it fails with    *)
(* the no-interpretation error exactly when no disjunct was produced       *)
(* (empty take set, empty M or D, no legal pair in M x D).                 *)
(***************************************************************************)
C10_ThrowsIffNoDisjunct ==
  interpreted =>
    /\ ipc = "returned" => Len(interpretation) > 0
    /\ ipc = "nointerpretation" <=>
         IF cmd.command = "take"
         THEN elements(interpretEntity(cmd.entity)) = {}
         ELSE legalPairs = {}

(***************************************************************************)
(* C11.  interpret over a list of parses returns, in the order of the      *)
(* parses, exactly the parses whose interpretCommand succeeded, each with  *)
(* its formula; a failing parse does not abort the others; interpret       *)
(* raises only if every parse failed, and then raises the error of the     *)
(* first failing parse.                                                    *)
(***************************************************************************)
succeeds(p) == interpretCommand(p.parse).status = "returned"

C11_InterpretCollectsSuccesses ==
  ipc \in {"interpretReturned", "interpretThrew"} =>
    LET ok == SelectSeq(parses, succeeds)
    IN /\ interpretations =
            [i \in 1..Len(ok) |->
               InterpretationResult(ok[i].parse, interpretCommand(ok[i].parse).interpretation)]
       /\ ipc = "interpretThrew" <=> \A i \in 1..Len(parses) : ~succeeds(parses[i])
       /\ (ipc = "interpretThrew" /\ Len(parses) > 0) =>
            thrown = interpretCommand(parses[1].parse).status

\* the first parse fails, the second is returned
C11_Witness ==
  /\ ipc = "interpretReturned"
  /\ Len(parses) = 2
  /\ ~succeeds(parses[1])
  /\ interpretations =
       <<InterpretationResult(parses[2].parse, interpretCommand(parses[2].parse).interpretation)>>

(***************************************************************************)
(* C12.  For a nested description "an X on the floor" (relation ontop,     *)
(* anchor the floor) the resolver returns exactly the objects matching X   *)
(* that stand at position 0 of some stack, whichever stack it is.          *)
(***************************************************************************)
bottoms == { stacks[j][1] : j \in { k \in 1..Len(stacks) : Len(stacks[k]) > 0 } }

onTheFloor(X) == { o \in bottoms : isMatching(objects[o], X) }

C12_OnTheFloorEveryStack ==
  (interpreted /\ cmd.command = "take"
     /\ cmd.entity.object \in { composite(X, "ontop", theFloor) : X \in {anObject, aBall, aBox} }) =>
    elements(interpretEntity(cmd.entity)) = onTheFloor(cmd.entity.object.object)

(***************************************************************************)
(* C13.  For a relational command whose destination resolves to the       *)
(* virtual floor, the formula holds the disjunct relation(m, "floor") for  *)
(* every resolved moving object m when the relation is ontop or above, and *)
(* no disjunct is produced for any other relation.  Moving objects are the *)
(* objects of the stacks (the floor itself is related to nothing).         *)
(***************************************************************************)
C13_FloorDestination ==
  (interpreted /\ cmd.command # "take"
     /\ interpretEntity(cmd.location.entity) = <<"floor">>) =>
    IF cmd.location.relation \in {"ontop", "above"}
    THEN \A m \in elements(interpretEntity(cmd.entity)) \ {"floor"} :
           occurrences(interpretation, relating(cmd.location.relation, m, "floor")) = 1
    ELSE interpretation = <<>>

(***************************************************************************)
(* C14.  The resolver, the matcher and the legality checker never raise:   *)
(* no call of interpretCommand is left by an error of interpretObject,     *)
(* interpretLocation, isMatching or isAllowed, also when an anchor, a      *)
(* moving object or a destination is the virtual identifier "floor".       *)
(***************************************************************************)
C14_ResolverNeverRaises ==
  ipc # "typeerror"

(***************************************************************************)
(* C15.  isMatching(candidate, description) is true iff every set field    *)
(* among form, size and color of the flat description equals the field of  *)
(* the candidate, an unset field and the form "anyform" being ignored; it  *)
(* is true of every object for the empty description.  Stated on the       *)
(* matcher and on the formula of a take command with a flat description.   *)
(***************************************************************************)
fieldIsSet(description, field) ==
  /\ description[field] # ""
  /\ ~(field = "form" /\ description[field] = "anyform")

matches(candidate, description) ==
  \A field \in {"form", "size", "color"} :
    fieldIsSet(description, field) => candidate[field] = description[field]

C15_MatchingIsConjunctive ==
  (interpreted /\ cmd.command = "take" /\ "form" \in DOMAIN cmd.entity.object) =>
    /\ \A o \in DOMAIN objects :
         /\ isMatching(objects[o], cmd.entity.object) = matches(objects[o], cmd.entity.object)
         /\ isMatching(objects[o], flat("", "", ""))
    /\ cmd.entity.object.form # "floor" =>
         \A o \in elements(worldObjects) :
           (holding(o) \in elements(interpretation)) <=> matches(objects[o], cmd.entity.object)

\* "take a small white ball": a small ball and a white ball, no small white one
C15_Witness ==
  /\ ipc = "nointerpretation"
  /\ cmd = take(flat("ball", "small", "white"))
  /\ \E o \in elements(worldObjects) : objects[o].form = "ball" /\ objects[o].size = "small"
  /\ \E o \in elements(worldObjects) : objects[o].form = "ball" /\ objects[o].color = "white"

(***************************************************************************)
(* C16.  For the relation ontop and a destination whose form is box,       *)
(* isAllowed is false for every moving object, whatever the sizes: the     *)
(* formula of an ontop command holds no disjunct whose second argument is  *)
(* a box.                                                                  *)
(***************************************************************************)
isBox(id) == id \in DOMAIN objects /\ objects[id].form = "box"

C16_NothingOntopOfABox ==
  (interpreted /\ cmd.command # "take" /\ cmd.location.relation = "ontop") =>
    /\ \A m \in elements(interpretEntity(cmd.entity)) \cap DOMAIN objects :
         \A d \in elements(interpretEntity(cmd.location.entity)) :
           isBox(d) => ~isAllowed(cmd, m, "ontop", d)
    /\ \A i \in 1..Len(interpretation) : ~isBox(interpretation[i][1].args[2])

\* "put a ball on a box": the small ball f fits the large box k by size
C16_Witness ==
  /\ ipc = "nointerpretation"
  /\ cmd = move(aBall, "ontop", aBox)
  /\ "f" \in elements(interpretEntity(cmd.entity))
  /\ "k" \in elements(interpretEntity(cmd.location.entity))

(***************************************************************************)
(* C17.  interpretLocation with the relation leftof returns no neighbour   *)
(* for an anchor in the leftmost stack, and with the relation rightof no   *)
(* neighbour for an anchor in the rightmost stack.  Stated for the         *)
(* relation as the parser writes it and as the case labels of lines 213    *)
(* and 219 write it.                                                       *)
(***************************************************************************)
inStack(id, j) == \E i \in 1..Len(stacks[j]) : stacks[j][i] = id

atBoundary(relation, id) ==
  IF relation \in {"leftof", "left of"} THEN inStack(id, 1)
  ELSE inStack(id, Len(stacks))

C17_NoNeighbourPastBoundary ==
  (interpreted /\ cmd.command = "take" /\ "location" \in DOMAIN cmd.entity.object
     /\ cmd.entity.object.location.relation \in {"leftof", "left of", "rightof", "right of"}) =>
    LET location == cmd.entity.object.location
        anchors == elements(interpretEntity(location.entity))
    IN /\ \A a \in anchors :
            atBoundary(location.relation, a) => neighbours(location.relation, a) = <<>>
       /\ (\A a \in anchors : atBoundary(location.relation, a)) =>
            /\ interpretLocation(location) = <<>>
            /\ ipc = "nointerpretation"

\* "take an object left of a ball": both balls in the leftmost stack, and
\* objects in the rightmost one
C17_Witness ==
  /\ ipc = "nointerpretation"
  /\ cmd = take(composite(anObject, "left of", aBall))
  /\ inStack("e", 1) /\ inStack("f", 1)
  /\ Len(stacks[Len(stacks)]) > 0

(***************************************************************************)
(* C18.  isAllowed(move, relation, dest) equals the fixed table of nine    *)
(* rules for every pair of identifiers and every relation: it is false iff *)
(* at least one rule applies (self-relation, floor with a relation outside *)
(* ontop/above, large on small, small under large, ball rule, box rule,    *)
(* ball destination, pyramid destination, brick destination) and true      *)
(* otherwise.                                                              *)
(***************************************************************************)
\* the definition the table reads for an identifier: the virtual floor has
\* the reserved form "floor"
definitionOf(id) ==
  IF id = "floor" THEN ObjectDefinition("floor", "", "") ELSE objects[id]

ruleApplies(moveId, relation, destId) ==
  LET mv == definitionOf(moveId)
      dest == definitionOf(destId)
  IN \/ moveId = destId
     \/ (destId = "floor" /\ relation \notin {"ontop", "above"})
     \/ (mv.size = "large" /\ dest.size = "small" /\ relation \in {"ontop", "inside", "above"})
     \/ (mv.size = "small" /\ dest.size = "large" /\ relation = "under")
     \/ (mv.form = "ball"
           /\ ((dest.form \notin {"floor", "box"} /\ relation \in {"ontop", "inside"})
                \/ relation = "under"))
     \/ (dest.form = "box"
           /\ (relation = "ontop"
                \/ (mv.form \in {"box", "pyramid", "plank"} /\ mv.size = dest.size)))
     \/ (dest.form = "ball" /\ relation \in {"ontop", "above"})
     \/ (dest.form = "pyramid" /\ mv.form = "box" /\ mv.size = dest.size)
     \/ (dest.form = "brick" /\ mv.form = "box" /\ dest.size = "small")

C18_IsAllowedIsRuleTable ==
  (interpreted /\ cmd.command # "take") =>
    \A m \in elements(interpretEntity(cmd.entity)) :
      \A d \in elements(interpretEntity(cmd.location.entity)) :
        IF isAllowedThrows(m, cmd.location.relation, d) THEN FALSE
        ELSE isAllowed(cmd, m, cmd.location.relation, d)
               = ~ruleApplies(m, cmd.location.relation, d)

(***************************************************************************)
(* C19.  For a flat description whose form is not "floor", the resolver    *)
(* returns exactly the identifiers of the object mapping of the world      *)
(* whose definition satisfies the matcher, every one and none other; for a *)
(* flat description of form "floor" it returns exactly {"floor"}.          *)
(***************************************************************************)
flatTake == interpreted /\ cmd.command = "take" /\ "form" \in DOMAIN cmd.entity.object

C19_FlatResolvesMapping ==
  flatTake =>
    elements(interpretEntity(cmd.entity)) =
      IF cmd.entity.object.form = "floor" THEN {"floor"}
      ELSE { o \in DOMAIN objects : matches(objects[o], cmd.entity.object) }

(***************************************************************************)
(* C19, as the code has it.  For a flat description whose form is not      *)
(* "floor", the resolver returns exactly the identifiers standing in the   *)
(* stacks of the world whose definition satisfies the matcher, each once;  *)
(* for a flat description of form "floor" it returns exactly {"floor"}.    *)
(***************************************************************************)
C19_FlatResolvesStacked ==
  flatTake =>
    LET resolved == interpretEntity(cmd.entity)
        expected == IF cmd.entity.object.form = "floor" THEN {"floor"}
                    ELSE { o \in UNION { elements(stacks[j]) : j \in 1..Len(stacks) } :
                             matches(objects[o], cmd.entity.object) }
    IN /\ elements(resolved) = expected
       /\ Len(resolved) = Cardinality(expected)
       /\ elements(interpretation) = { holding(o) : o \in expected }

\* "take an object" where the mapping defines an object that is in no stack
C19_Witness ==
  /\ ipc = "returned"
  /\ cmd = take(anObject)
  /\ "a" \in DOMAIN objects
  /\ Len(stacks[1]) < Len(interpretation)

(***************************************************************************)
(* C20.  For a composite description {object, location} the resolver      *)
(* returns exactly the intersection of what it returns for the object and  *)
(* what interpretLocation returns for the location, at every depth of      *)
(* nesting.                                                                *)
(***************************************************************************)
RECURSIVE descriptionsWithin(_)
\* a description and the descriptions nested in it
descriptionsWithin(description) ==
  IF "object" \in DOMAIN description
  THEN {description} \cup descriptionsWithin(description.object)
                     \cup descriptionsWithin(description.location.entity.object)
  ELSE {description}

descriptionsOf(c) ==
  descriptionsWithin(c.entity.object)
    \cup (IF c.command = "take" THEN {} ELSE descriptionsWithin(c.location.entity.object))

isIntersection(description) ==
  elements(interpretObject(description)) =
    elements(interpretObject(description.object))
      \cap elements(interpretLocation(description.location))

C20_CompositeIsIntersection ==
  interpreted =>
    /\ \A description \in descriptionsOf(cmd) :
         "object" \in DOMAIN description => isIntersection(description)
    /\ (cmd.command = "take" /\ "object" \in DOMAIN cmd.entity.object) =>
         elements(interpretation) =
           { holding(o) : o \in elements(interpretObject(cmd.entity.object.object))
                                 \cap elements(interpretLocation(cmd.entity.object.location)) }

\* a description nested twice that one of the two balls satisfies
C20_Witness ==
  /\ ipc = "returned"
  /\ cmd.command = "take"
  /\ cmd.entity.object \in Nested2
  /\ Len(interpretation) = 1

(***************************************************************************)
(* Reference notions for the locations: where an object stands.            *)
(***************************************************************************)
stackOf(id) == CHOOSE j \in 1..Len(stacks) : inStack(id, j)

heightOf(id) == CHOOSE i \in 1..Len(stacks[stackOf(id)]) : stacks[stackOf(id)][i] = id

stacked(id) == \E j \in 1..Len(stacks) : inStack(id, j)

\* the objects of the stack k places to the right of the stack of id
objectsBeside(id, k) ==
  IF stackOf(id) + k \in 1..Len(stacks) THEN elements(stacks[stackOf(id) + k]) ELSE {}

\* a take command whose description is "an X <relation> a Y", Y flat
nestedTake(relations) ==
  /\ interpreted
  /\ cmd.command = "take"
  /\ "location" \in DOMAIN cmd.entity.object
  /\ cmd.entity.object.location.relation \in relations
  /\ "form" \in DOMAIN cmd.entity.object.location.entity.object

(***************************************************************************)
(* C21.  For the relation leftof (rightof), interpretLocation returns, for *)
(* each anchor, every object of the stack immediately to the left (right)  *)
(* of the stack of the anchor, and the union of these over the anchors.    *)
(***************************************************************************)
C21_LeftofRightofNeighbours ==
  (nestedTake({"leftof", "rightof"})
     /\ cmd.entity.object.location.entity.object.form # "floor") =>
    LET location == cmd.entity.object.location
        k == IF location.relation = "leftof" THEN 0 - 1 ELSE 1
    IN elements(interpretLocation(location)) =
         UNION { objectsBeside(a, k) : a \in elements(interpretEntity(location.entity)) }

(***************************************************************************)
(* C22.  For every location entity and world, interpretLocation with the   *)
(* relation beside returns exactly the union of what it returns with the   *)
(* relation leftof and with the relation rightof for the same entity.      *)
(***************************************************************************)
C22_BesideIsLeftofOrRightof ==
  nestedTake({"beside"}) =>
    LET location == cmd.entity.object.location
    IN elements(interpretLocation(location)) =
         elements(interpretLocation([location EXCEPT !.relation = "leftof"]))
           \cup elements(interpretLocation([location EXCEPT !.relation = "rightof"]))

(***************************************************************************)
(* C23.  For the relation ontop or inside, interpretLocation returns for   *)
(* each anchor that is in a stack exactly the single object at the next    *)
(* higher position of the same stack, and nothing for an anchor that is    *)
(* the top of its stack; ontop and inside resolve identically.             *)
(***************************************************************************)
\* the object standing directly on id, if any
directlyOn(id) ==
  IF heightOf(id) < Len(stacks[stackOf(id)])
  THEN <<stacks[stackOf(id)][heightOf(id) + 1]>> ELSE <<>>

C23_OntopInsideNextHigher ==
  nestedTake({"ontop", "inside"}) =>
    LET location == cmd.entity.object.location
        anchors == elements(interpretEntity(location.entity))
    IN /\ \A a \in anchors :
            stacked(a) => neighbours(location.relation, a) = directlyOn(a)
       /\ (\A a \in anchors : stacked(a)) =>
            elements(interpretLocation(location)) =
              UNION { elements(directlyOn(a)) : a \in anchors }
       /\ interpretLocation([location EXCEPT !.relation = "ontop"])
            = interpretLocation([location EXCEPT !.relation = "inside"])

\* "take a ball in a box": a ball directly on one box, the other box a top
C23_Witness ==
  /\ ipc = "returned"
  /\ cmd = take(composite(aBall, "inside", aBox))
  /\ Len(interpretation) = 1
  /\ \E b \in {"k", "m"} : directlyOn(b) = <<>>

(***************************************************************************)
(* C24.  For the relation above (under), interpretLocation returns for     *)
(* each anchor exactly the objects at strictly higher (strictly lower)     *)
(* positions of the stack of the anchor: never the anchor itself, never an *)
(* object of another stack.  Stated for the anchors that stand in a stack. *)
(***************************************************************************)
strictlyAbove(id) ==
  { stacks[stackOf(id)][i] : i \in (heightOf(id) + 1)..Len(stacks[stackOf(id)]) }

strictlyUnder(id) ==
  { stacks[stackOf(id)][i] : i \in 1..(heightOf(id) - 1) }

C25_ClosedNeverReopened ==
  /\ \A i \in 1..Len(closedSet) :
       \A k \in 1..Len(openSet) : compareNodes(openSet[k].node, closedSet[i]) # 0
  /\ \A i, j \in 1..Len(closedSet) :
       i # j => compareNodes(closedSet[i], closedSet[j]) # 0

(***************************************************************************)
(* C26.  When an edge to a non-closed node T is processed with             *)
(* g' = entry.g + cost: if T is not in the open set, the entry             *)
(* {T, parent = entry, g', f = g' + heuristic(T)} is inserted; if T is in  *)
(* the open set with g <= g', the open set is unchanged; otherwise the     *)
(* entry of T is replaced by the new one, so that afterwards the open      *)
(* entry of T has g = min(old g, g') and no stale entry for T remains.     *)
(* Stated for every edge of the expansion the loop is about to run.        *)
(***************************************************************************)
entriesOf(open, T) == { i \in 1..Len(open) : compareNodes(open[i].node, T) = 0 }

othersOf(open, T) == SelectSeq(open, LAMBDA e : compareNodes(e.node, T) # 0)

relaxed(open, after, current, n) ==
  LET T == n.to
      g2 == current.g + n.cost
      entry == NodeScore(<<current>>, T, g2 + h[T], g2)
  IN IF entriesOf(open, T) = {} THEN after = Append(open, entry)
     ELSE IF \E i \in entriesOf(open, T) : open[i].g <= g2 THEN after = open
     ELSE /\ Cardinality(entriesOf(after, T)) = 1
          /\ \A i \in entriesOf(after, T) : after[i] = entry
          /\ othersOf(after, T) = othersOf(open, T)

C26_EdgeRelaxation ==
  (pc = "loop" /\ Len(openSet) > 0) =>
    LET current == getLowest(openSet)
        closed == Append(closedSet, current.node)
        ns == outgoingEdges(current.node)
        before(k) == processEdges(remove(openSet, current), closed, current,
                                  SubSeq(ns, 1, k - 1), 1)
    IN ~goal(current.node) =>
         \A k \in 1..Len(ns) :
           (\A i \in 1..Len(closed) : compareNodes(closed[i], ns[k].to) # 0) =>
             relaxed(before(k), processEdge(before(k), closed, current, ns[k]),
                     current, ns[k])

\* the entry of b inserted for the edge s -> b has been replaced by the one
\* for the edge a -> b
C26_Witness ==
  /\ pc = "loop"
  /\ \A i \in 1..Len(closedSet) : closedSet[i] # "b"
  /\ \E i \in 1..Len(openSet) :
       /\ openSet[i].node = "b"
       /\ openSet[i].parent[1].node = "a"
       /\ openSet[i].g < edgeCost("s", "b")

(***************************************************************************)
(* C27.  Each extraction removes from the open set an entry whose f is     *)
(* minimal among all open entries; among several entries with the same     *)
(* minimal f it takes the one that was added to the open list earliest     *)
(* among those in it (the list keeps its entries in the order of add).     *)
(***************************************************************************)
firstLowest(list) ==
  CHOOSE i \in 1..Len(list) :
    /\ \A j \in 1..Len(list) : list[i].f <= list[j].f
    /\ \A j \in 1..(i - 1) : list[j].f > list[i].f

C27_ExtractsEarliestMinimum ==
  [][(pc = "loop" /\ Len(openSet) > 0 /\ (pc' = "found" \/ closedSet' # closedSet)) =>
       LET taken == openSet[firstLowest(openSet)]
       IN /\ \A k \in 1..Len(openSet') : openSet'[k] # taken
          /\ IF pc' = "found"
             THEN /\ result'.path[Len(result'.path)] = taken.node
                  /\ result'.cost = taken.g
             ELSE closedSet' = Append(closedSet, taken.node)]_vars

\* after start, b was taken before a: both had the minimal f, and the entry
\* of b was added first
C27_Witness ==
  /\ closedSet = <<"s", "b">>
  /\ h["a"] + edgeCost("s", "a") = h["b"] + edgeCost("s", "b")

(***************************************************************************)
(* C28.  On a finite graph with edge costs >= 0 in which a goal node is    *)
(* reachable from start, and with a generous timeout, aStarSearch with any *)
(* non-negative heuristic eventually terminates and returns a path to a    *)
(* goal node.  The search is deterministic and the loop goes on while the  *)
(* open set is not empty: a run that enters the loop body in a             *)
(* configuration it entered it in before never terminates.  Stated as: a   *)
(* run never comes back to a configuration, and ends with a path only.     *)
(***************************************************************************)
C28_ReachableGoalIsFound ==
  goalReachable =>
    /\ ~(pc = "loop" /\ Len(openSet) > 0 /\ configuration \in visited)
    /\ searchEnded => pc = "found"

(***************************************************************************)
(* C29.  At every point of a search the open set holds at most one entry   *)
(* per node: no two open entries have nodes that are equal under           *)
(* compareNodes.                                                           *)
(***************************************************************************)
C29_OneOpenEntryPerNode ==
  \A i, j \in 1..Len(openSet) :
    i # j => compareNodes(openSet[i].node, openSet[j].node) # 0

\* s and a are expanded and b is open, still with the entry made for the
\* edge s -> b: the edge a -> b has been processed and added no entry
C29_Witness ==
  /\ pc = "loop"
  /\ closedSet = <<"s", "a">>
  /\ \E i \in 1..Len(openSet) :
       openSet[i].node = "b" /\ openSet[i].parent[1].node = "s"

(***************************************************************************)
(* C30.  In every world in which each identifier stands at one position of *)
(* one stack at most, the formula returned by interpretCommand holds no    *)
(* two identical disjuncts, for any nesting of descriptions and also when  *)
(* several anchors contribute the same neighbour in interpretLocation; and *)
(* no disjunct relates an object to itself.                                *)
(***************************************************************************)
C30_NoDuplicateDisjunct ==
  ipc = "returned" =>
    /\ \A i, j \in 1..Len(interpretation) :
         i # j => interpretation[i] # interpretation[j]
    /\ \A i \in 1..Len(interpretation) :
         Len(interpretation[i][1].args) = 2 =>
           interpretation[i][1].args[1] # interpretation[i][1].args[2]

\* an object of the formula is the neighbour of several anchors
C30_Witness ==
  /\ ipc = "returned"
  /\ "location" \in DOMAIN cmd.entity.object
  /\ \E o \in elements(interpretEntity(cmd.entity)) :
       LET locObjects == interpretLocation(cmd.entity.object.location)
       IN Cardinality({ i \in 1..Len(locObjects) : locObjects[i] = o }) >= 2

====
